---- MODULE Spec2Model ----
(***************************************************************************)
(* Rotational connect-five (pgx/_src/games/connect_five.py).                *)
(*                                                                         *)
(* A GameState is the record [color, board, winner, round]; board is the   *)
(* flat array of 81 cells (row-major 9x9, -1 empty, 0 / 1 owned).  Game    *)
(* operations are pure functions of a GameState; the variables below hold  *)
(* the GameState the caller currently owns and what the last call did.     *)
(***************************************************************************)
EXTENDS Integers, Sequences, FiniteSets, TLC

VARIABLES
    state,      \* the GameState held by the caller
    prev,       \* the GameState passed to the last step call
    mid,        \* the GameState built by step before the conditional rotation
    rotated,    \* whether the last step call took the rotation branch
    acts,       \* the actions of all step calls so far
    rots,       \* the values of round at which the rotation branch was taken
    obs,        \* the last observe call: its color argument and its result
    res         \* the last is_terminal, rewards or legal_action_mask call

vars == <<state, prev, mid, rotated, acts, rots, obs, res>>

----------------------------------------------------------------------------
(* Bounds of the model *)

\* step calls explored from init()
MaxRound == 7
\* the first WideRound step calls from init() play any column, the later
\* ones a column of PlayCols
WideRound == 1
\* the round counter of a constructed GameState ranges over 0..MaxStartRound
MaxStartRound == 2
\* step calls explored from init() in the games played on GameCols
MaxGameRound == 13

----------------------------------------------------------------------------
(* Arrays *)

N == 9
Rows == 0 .. (N - 1)
Cols == 0 .. (N - 1)
Cells == 0 .. (N * N - 1)
Empty == -1
Players == {0, 1}

\* An array is a function on its indices.  Array and Array2 leave the value
\* unchanged and have TLC compute every element once, when the array is built,
\* instead of on every read.
Array(f) == f @@ <<>>
Array2(f) == Array([r \in DOMAIN f |-> Array(f[r])])

\* board.reshape(9, 9)
Reshape(board) == Array2([r \in Rows |-> [c \in Cols |-> board[r * N + c]]])

\* board2d.flatten()
Flatten(board2d) == Array([i \in Cells |-> board2d[i \div N][i % N]])

\* a variant that clamps a negative index to the first element
NormalizeIndex_Clamp(i) == IF i < 0 THEN 0 ELSE i

\* a JAX index: a negative index counts from the end of the axis
NormalizeIndex(i) == IF i < 0 THEN i + N ELSE i

\* a variant that counts the cells > 0, missing the pieces of player 0
NumFilled_Positive(board2d, a) ==
    Cardinality({r \in Rows : board2d[r][a] > 0})

\* (board2d[:, action] >= 0).sum()
NumFilled(board2d, a) == Cardinality({r \in Rows : board2d[r][a] >= 0})

\* board2d.at[row, action].set(color)
AtSet(board2d, row, a, color) ==
    LET rr == NormalizeIndex(row)
    IN  Array2([r \in Rows |-> [c \in Cols |->
            IF r = rr /\ c = a THEN color ELSE board2d[r][c]]])

----------------------------------------------------------------------------
(* The win-line table *)

Vertical ==
    [k \in 1 .. (4 * 9) |->
        LET i == (k - 1) \div 9
            j == (k - 1) % 9
            a == i * 9 + j
        IN  <<a, a + 9, a + 18, a + 27, a + 36>>]

Horizontal ==
    [k \in 1 .. (9 * 4) |->
        LET i == (k - 1) \div 4
            j == (k - 1) % 4
            a == i * 9 + j
        IN  <<a, a + 1, a + 2, a + 3, a + 4>>]

Diagonal ==
    [k \in 1 .. (4 * 4) |->
        LET i == (k - 1) \div 4
            j == (k - 1) % 4
            a == i * 9 + j
        IN  <<a, a + 10, a + 20, a + 30, a + 40>>]

AntiDiagonal ==
    [k \in 1 .. (4 * 5) |->
        LET i == (k - 1) \div 5
            j == 4 + ((k - 1) % 5)
            a == i * 9 + j
        IN  <<a, a + 8, a + 16, a + 24, a + 32>>]

\* a variant that leaves out the last loop
make_win_cache_NoAntiDiagonal == Vertical \o Horizontal \o Diagonal

make_win_cache == Vertical \o Horizontal \o Diagonal \o AntiDiagonal

IDX == make_win_cache

\* ((board.flatten()[IDX] == player).all(axis=1)).any()
check_winner(board, player) ==
    \E k \in DOMAIN IDX : \A m \in 1 .. 5 : board[IDX[k][m]] = player

----------------------------------------------------------------------------
(* The rotation-gravity mechanic *)

\* a variant that turns counterclockwise, as jnp.rot90(board, 1)
rot90_CounterClockwise(board2d) ==
    Array2([i \in Rows |-> [j \in Cols |-> board2d[j][N - 1 - i]]])

\* jnp.rot90(board, -1): a clockwise quarter-turn
rot90(board2d) ==
    Array2([i \in Rows |-> [j \in Cols |-> board2d[N - 1 - j][i]]])

\* a variant that sorts ascending: the false entries come first
argsort_Ascending(mask) ==
    LET Before(j, i) == (~mask[j] /\ mask[i]) \/ (mask[j] = mask[i] /\ j < i)
        Rank(i) == Cardinality({j \in Rows : Before(j, i)})
    IN  Array([k \in Rows |-> CHOOSE i \in Rows : Rank(i) = k])

\* jnp.argsort(mask, stable=True, descending=True): the indices of the true
\* entries in increasing order, then those of the false entries
argsort(mask) ==
    LET Before(j, i) == (mask[j] /\ ~mask[i]) \/ (mask[j] = mask[i] /\ j < i)
        Rank(i) == Cardinality({j \in Rows : Before(j, i)})
    IN  Array([k \in Rows |-> CHOOSE i \in Rows : Rank(i) = k])

apply_gravity_column_sort(col) ==
    LET mask == Array([i \in Rows |-> col[i] = Empty])
        order == argsort(mask)
    IN  Array([k \in Rows |-> col[order[k]]])

\* a variant that leaves the columns as the quarter-turn put them
apply_gravity_board_sort_None(board2d) == board2d

\* vmap over the last axis: every column is sorted on its own
apply_gravity_board_sort(board2d) ==
    LET sorted == Array([c \in Cols |->
                     apply_gravity_column_sort([r \in Rows |-> board2d[r][c]])])
    IN  Array2([r \in Rows |-> [c \in Cols |-> sorted[c][r]]])

rotate_and_apply_gravity(board2d) ==
    apply_gravity_board_sort(rot90(board2d))

\* a variant that tests the single winners before the simultaneous win
SelectWinner_SingleFirst(won_0, won_1) ==
    IF won_0 THEN 0
    ELSE IF won_1 THEN 1
    ELSE IF won_0 /\ won_1 THEN 2
    ELSE -1

\* jnp.select([won_0 & won_1, won_0, won_1], [2, 0, 1], -1)
SelectWinner(won_0, won_1) ==
    IF won_0 /\ won_1 THEN 2
    ELSE IF won_0 THEN 0
    ELSE IF won_1 THEN 1
    ELSE -1

\* a variant that flips the color once more
rotate_update_state_FlipColor(s) ==
    LET board == Flatten(rotate_and_apply_gravity(Reshape(s.board)))
        won_0 == check_winner(board, 0)
        won_1 == check_winner(board, 1)
    IN  [s EXCEPT !.winner = SelectWinner(won_0, won_1), !.board = board,
                  !.color = 1 - s.color]

rotate_update_state(s) ==
    LET board == Flatten(rotate_and_apply_gravity(Reshape(s.board)))
        won_0 == check_winner(board, 0)
        won_1 == check_winner(board, 1)
    IN  [s EXCEPT !.winner = SelectWinner(won_0, won_1), !.board = board]

----------------------------------------------------------------------------
(* Game *)

GameState(color, board, winner, round) ==
    [color |-> color, board |-> board, winner |-> winner, round |-> round]

EmptyBoard == Array([i \in Cells |-> Empty])

init == GameState(0, EmptyBoard, -1, 0)

\* a variant that is off by one in the row of the dropped piece
step_board_OffByOne(s, a) ==
    LET board2d == Reshape(s.board)
        num_filled == NumFilled(board2d, a)
    IN  Flatten(AtSet(board2d, 9 - num_filled, a, s.color))

\* step, lines 45-48: the board with the mover's piece dropped in the column
step_board(s, a) ==
    LET board2d == Reshape(s.board)
        num_filled == NumFilled(board2d, a)
    IN  Flatten(AtSet(board2d, 8 - num_filled, a, s.color))

\* a variant that names the winner after the color flip
step_replace_WinnerFlipped(s, board, won) ==
    GameState(1 - s.color, board, IF won THEN 1 - s.color ELSE -1, s.round + 1)

\* a variant that carries the previous winner forward
step_replace_CarryWinner(s, board, won) ==
    GameState(1 - s.color, board, IF won THEN s.color ELSE s.winner,
              s.round + 1)

\* a variant that does not flip the color
step_replace_KeepColor(s, board, won) ==
    GameState(s.color, board, IF won THEN s.color ELSE -1, s.round + 1)

\* step, lines 52-57: the state before the conditional rotation
step_replace(s, board, won) ==
    GameState(1 - s.color, board, IF won THEN s.color ELSE -1, s.round + 1)

\* a variant that rotates without looking at the immediate win
step_cond_IgnoreWin(s, won) == s.round % 3 = 0

\* a variant that tests the round before the move
step_cond_OldRound(s, won) == ((s.round - 1) % 3 = 0) /\ ~won

\* step, line 60: the predicate of jax.lax.cond, on the replaced state
step_cond(s, won) == (s.round % 3 = 0) /\ ~won

\* step with its intermediate values: the state before the conditional
\* rotation, the branch taken, and the state returned
step_trace(s, a) ==
    LET board == step_board(s, a)
        won == check_winner(board, s.color)
        replaced == step_replace(s, board, won)
        cond == step_cond(replaced, won)
    IN  [mid |-> replaced,
         rotated |-> cond,
         out |-> IF cond THEN rotate_update_state(replaced) ELSE replaced]

step(s, a) == step_trace(s, a).out

\* a variant that hides the columns of a decided game
legal_action_mask_Undecided(s) ==
    [c \in Cols |-> s.winner < 0 /\ NumFilled(Reshape(s.board), c) < 9]

\* (board2d >= 0).sum(axis=0) < 9
legal_action_mask(s) ==
    [c \in Cols |-> NumFilled(Reshape(s.board), c) < 9]

\* a variant that forgets the exhausted board
is_terminal_WinnerOnly(s) == s.winner >= 0

\* (winner >= 0) | jnp.all((board2d >= 0).sum(axis=0) == 9)
is_terminal(s) ==
    (s.winner >= 0) \/ (\A c \in Cols : NumFilled(Reshape(s.board), c) = 9)

\* a variant that rewards a simultaneous win like a win of player 1
rewards_AnyWinner(s) ==
    IF s.winner = 0 THEN <<1, -1>>
    ELSE IF s.winner >= 1 THEN <<-1, 1>>
    ELSE <<0, 0>>

\* jnp.select([winner == 0, winner == 1], [[1, -1], [-1, 1]], [0, 0])
rewards(s) ==
    IF s.winner = 0 THEN <<1, -1>>
    ELSE IF s.winner = 1 THEN <<-1, 1>>
    ELSE <<0, 0>>

\* observe called without a viewing color: the parameter keeps its default
None == -1

\* a variant that keeps the planes in absolute order
observe_Absolute(s, color) ==
    LET board2d == Reshape(s.board)
    IN  Array([r \in Rows |-> Array2([c \in Cols |-> [k \in 0 .. 1 |->
            board2d[r][c] = k]])])

\* observe, lines 69-73: the planes are stacked on the last axis
observe(s, color) ==
    LET turns == IF color = 0 THEN <<0, 1>> ELSE <<1, 0>>
        board2d == Reshape(s.board)
    IN  Array([r \in Rows |-> Array2([c \in Cols |-> [k \in 0 .. 1 |->
            board2d[r][c] = turns[k + 1]]])])

----------------------------------------------------------------------------
(* GameStates a caller can construct: one run of equal pieces on an empty  *)
(* board, possibly with a second run of the other player next to it.       *)

Dirs == {<<1, 0>>, <<0, 1>>, <<1, 1>>, <<1, -1>>}
RunLens == {4, 5, 9}

RunCells(r, c, d, n) ==
    {<<r + i * d[1], c + i * d[2]>> : i \in 0 .. (n - 1)}

Runs ==
    {run \in [r : Rows, c : Cols, d : Dirs, n : RunLens, p : Players] :
        \A rc \in RunCells(run.r, run.c, run.d, run.n) :
            rc[1] \in Rows /\ rc[2] \in Cols}

\* the same run moved one cell sideways, owned by the other player
Twin(run) ==
    IF run.d = <<0, 1>>
    THEN [run EXCEPT !.r = run.r - 1, !.p = 1 - run.p]
    ELSE [run EXCEPT !.c = run.c + 1, !.p = 1 - run.p]

Overlay(board, run) ==
    Array([i \in Cells |->
        IF <<i \div N, i % N>> \in RunCells(run.r, run.c, run.d, run.n)
        THEN run.p ELSE board[i]])

SeedBoards ==
    {EmptyBoard}
    \cup {Overlay(EmptyBoard, run) : run \in Runs}
    \cup {Overlay(Overlay(EmptyBoard, run), Twin(run)) :
            run \in {x \in Runs : Twin(x) \in Runs}}

SeedStates ==
    {GameState(color, board, -1, round) :
        color \in Players, board \in SeedBoards, round \in 0 .. MaxStartRound}

\* boards without an empty cell, and the same with the top cell of one
\* column emptied
Pattern(k) == Array([i \in Cells |-> ((i \div N) \div k + (i % N)) % 2])
FullBoards == {Pattern(k) : k \in 1 .. 3}
Holed(board, c) == Array([i \in Cells |-> IF i = c THEN Empty ELSE board[i]])

QueryBoards ==
    SeedBoards \cup FullBoards
    \cup {Holed(board, c) : board \in FullBoards, c \in Cols}

\* the GameStates the read-only queries are called on
QueryStates ==
    {GameState(color, board, winner, round) :
        color \in Players, board \in QueryBoards, winner \in -1 .. 2,
        round \in {0, MaxStartRound}}

----------------------------------------------------------------------------
(* Actions *)

NoRes == [op |-> "none", value |-> <<>>]

NoObs == [called |-> FALSE, color |-> None, planes |-> <<>>]

PlayCols == {3, 4, 5}
GameCols == {0, 1, 2}

Start(s) ==
    /\ state = s
    /\ prev = s
    /\ mid = s
    /\ rotated = FALSE
    /\ acts = <<>>
    /\ rots = {}
    /\ obs = NoObs
    /\ res = NoRes

\* state = game.step(state, a)
Step(a) ==
    \E t \in {step_trace(state, a)} :
        /\ state' = t.out
        /\ prev' = state
        /\ mid' = t.mid
        /\ rotated' = t.rotated
        /\ acts' = Append(acts, a)
        /\ rots' = IF t.rotated THEN rots \cup {t.out.round} ELSE rots
        /\ obs' = NoObs
        /\ res' = NoRes

\* a step call whose action the legal-move mask allows
LegalStep(a) ==
    /\ state.round < MaxRound
    /\ a \in PlayCols \/ state.round < WideRound
    /\ legal_action_mask(state)[a]
    /\ Step(a)

\* state = game.step(state, a), by a caller that keeps the last action only
StepLast(a) ==
    \E t \in {step_trace(state, a)} :
        /\ state' = t.out
        /\ prev' = state
        /\ mid' = t.mid
        /\ rotated' = t.rotated
        /\ acts' = <<a>>
        /\ rots' = IF t.rotated THEN {t.out.round} ELSE {}
        /\ obs' = NoObs
        /\ res' = NoRes

\* a step call whose action the legal-move mask allows, in a game that is
\* played on, whatever is_terminal says
PlayStep(a) ==
    /\ state.round < MaxGameRound
    /\ legal_action_mask(state)[a]
    /\ StepLast(a)

\* a step call with a legal action on a state that is not terminal
GameStep(a) ==
    /\ ~is_terminal(state)
    /\ PlayStep(a)

\* a single step call with any column, on a constructed GameState
AnyStep(a) ==
    /\ acts = <<>>
    /\ Step(a)

\* obs = game.observe(state, v), or game.observe(state) when v is None
Observe(v) ==
    /\ obs = NoObs
    /\ res = NoRes
    /\ obs' = [called |-> TRUE, color |-> v, planes |-> observe(state, v)]
    /\ UNCHANGED <<state, prev, mid, rotated, acts, rots, res>>

\* res = game.is_terminal(state)
IsTerminal ==
    /\ obs = NoObs
    /\ res = NoRes
    /\ res' = [op |-> "is_terminal", value |-> is_terminal(state)]
    /\ UNCHANGED <<state, prev, mid, rotated, acts, rots, obs>>

\* res = game.rewards(state)
Rewards ==
    /\ obs = NoObs
    /\ res = NoRes
    /\ res' = [op |-> "rewards", value |-> rewards(state)]
    /\ UNCHANGED <<state, prev, mid, rotated, acts, rots, obs>>

\* res = game.legal_action_mask(state)
LegalActionMask ==
    /\ obs = NoObs
    /\ res = NoRes
    /\ res' = [op |-> "legal_action_mask", value |-> legal_action_mask(state)]
    /\ UNCHANGED <<state, prev, mid, rotated, acts, rots, obs>>

----------------------------------------------------------------------------
(* Specifications *)

\* play from init() with legal actions
Init == Start(init)
Next == \E a \in Cols : LegalStep(a)
Spec == Init /\ [][Next]_vars

\* play from init() with legal actions of GameCols
NextLegal == \E a \in GameCols : PlayStep(a)
SpecLegal == Init /\ [][NextLegal]_vars

\* the same, stopping at the terminal states
NextGame == \E a \in GameCols : GameStep(a)
SpecGame == Init /\ [][NextGame]_vars

\* one step call, legal or not, on a constructed GameState
InitAny == \E s \in SeedStates : Start(s)
NextAny == \E a \in Cols : AnyStep(a)
SpecAny == InitAny /\ [][NextAny]_vars

\* the read-only queries on a constructed GameState
InitQuery == \E s \in QueryStates : Start(s)
NextQuery ==
    \/ \E v \in {None, 0, 1} : Observe(v)
    \/ IsTerminal
    \/ Rewards
    \/ LegalActionMask
SpecQuery == InitQuery /\ [][NextQuery]_vars

----------------------------------------------------------------------------
(* Vocabulary of the properties, stated on the flat board *)

Stepped == acts # <<>>
LastAction == acts[Len(acts)]

\* the occupied cells of column c
Count(board, c) == Cardinality({r \in Rows : board[r * N + c] # Empty})
Total(board) == Cardinality({i \in Cells : board[i] # Empty})

\* no empty cell below an occupied cell in column c
Settled(board, c) ==
    \A r \in 0 .. (N - 2) :
        board[r * N + c] # Empty => board[(r + 1) * N + c] # Empty

\* board with cell (r, c) set to p
Put(board, r, c, p) == [i \in Cells |-> IF i = r * N + c THEN p ELSE board[i]]

\* five contiguous cells of a row, a column or a diagonal all equal to p
HasLine(board, p) ==
    \E r \in Rows, c \in Cols, d \in Dirs :
        \A rc \in RunCells(r, c, d, 5) :
            rc[1] \in Rows /\ rc[2] \in Cols /\ board[rc[1] * N + rc[2]] = p

\* the occupied cells of row r, left to right
RowPieces(board, r) ==
    LET IsPiece(x) == x # Empty
    IN  SelectSeq([c \in 1 .. N |-> board[r * N + c - 1]], IsPiece)

\* the cells of the board equal to v
CellsOf(board, v) == {i \in Cells : board[i] = v}

\* the quarter-turn and settling applied to a flat board
RotGrav(board) == Flatten(rotate_and_apply_gravity(Reshape(board)))

----------------------------------------------------------------------------
(* Properties *)

\* C1: for every state and legal action, step takes the rotation-gravity
\* branch iff the new round is a multiple of 3 and the mover's immediate win
\* check on the board with the placed piece is false; when the win check is
\* true the resulting board is the old board plus the placed piece and winner
\* is the mover's color.
C1_RotationIffThirdRoundAndNoWin ==
    (Stepped /\ Count(prev.board, LastAction) < 9) =>
        \A won \in {check_winner(mid.board, prev.color)} :
            /\ rotated = (((prev.round + 1) % 3 = 0) /\ ~won)
            /\ rotated => state.board = RotGrav(mid.board)
            /\ ~rotated => state = mid
            /\ won =>
                /\ state.board = Put(prev.board,
                                     8 - Count(prev.board, LastAction),
                                     LastAction, prev.color)
                /\ state.winner = prev.color

\* C1 witness: a legal move wins in a step that brings round to a multiple of 3
C1_Witness ==
    /\ Stepped
    /\ Count(prev.board, LastAction) < 9
    /\ state.round % 3 = 0
    /\ check_winner(mid.board, prev.color)
    /\ ~rotated

\* C2: the win-line table holds every length-5 line, so that on the board a
\* step returns the win check is true for player p iff some 5 contiguous
\* cells of a row, a column or a diagonal all equal p.
C2_WinCheckIffFiveInLine ==
    Stepped =>
        \A p \in Players :
            check_winner(state.board, p) <=> HasLine(state.board, p)

\* C3: after step the color is flipped and round is the old round + 1,
\* whether or not the move won or the rotation ran; the rotation-gravity
\* mechanic leaves color and round as the move application set them.
C3_ColorFlipsRoundIncrements ==
    Stepped =>
        /\ state.color = 1 - prev.color
        /\ state.round = prev.round + 1
        /\ mid.color = 1 - prev.color
        /\ mid.round = prev.round + 1
        /\ rotated => (state.color = mid.color /\ state.round = mid.round)

\* C3 witness: a step whose rotation changed the board
C3_Witness == Stepped /\ rotated /\ state.board # mid.board

\* C4: when the rotation-gravity mechanic runs, winner is 2 if both players
\* have a winning line of the table on the rotated and settled board, 0 if
\* only player 0 has one, 1 if only player 1 has one, -1 if neither; with
\* winner = 2 rewards is [0, 0].
C4_RotationWinnerFromBothChecks ==
    (Stepped /\ rotated) =>
        \A w0 \in {check_winner(state.board, 0)} :
        \A w1 \in {check_winner(state.board, 1)} :
            /\ (w0 /\ w1) => (state.winner = 2 /\ rewards(state) = <<0, 0>>)
            /\ (w0 /\ ~w1) => state.winner = 0
            /\ (~w0 /\ w1) => state.winner = 1
            /\ (~w0 /\ ~w1) => state.winner = -1

\* C4 witness: a rotation that leaves both players with a winning line
C4_Witness ==
    /\ Stepped
    /\ rotated
    /\ check_winner(state.board, 0)
    /\ check_winner(state.board, 1)
    /\ state.winner = 2

\* C5: after the rotation-gravity mechanic no column of the board has an
\* empty cell below an occupied cell.
C5_RotationSettlesColumns ==
    (Stepped /\ rotated) => \A c \in Cols : Settled(state.board, c)

\* C5 witness: a rotation after which pieces had to fall
C5_Witness ==
    /\ Stepped
    /\ rotated
    /\ \E c \in Cols : ~Settled(Flatten(rot90(Reshape(mid.board))), c)

\* C6: from init(), seven steps with action 4 take the rotation-gravity
\* branch exactly twice, in the steps that bring round to 3 and to 6, and end
\* with round = 7.
C6_SevenMovesInColumnFour ==
    (Len(acts) = 7 /\ \A i \in 1 .. 7 : acts[i] = 4) =>
        (rots = {3, 6} /\ state.round = 7)

\* C6 witness: the seven steps with action 4 have been taken
C6_Witness == Len(acts) = 7 /\ \A i \in 1 .. 7 : acts[i] = 4

\* C7: for an action c whose column holds k < 9 occupied cells, the move
\* application writes the mover's color into cell (8 - k, c) and changes no
\* other cell; when the column is settled that cell was empty and every cell
\* below it is occupied.
C7_MoveWritesRowEightMinusCount ==
    (Stepped /\ Count(prev.board, LastAction) < 9) =>
        \A k \in {Count(prev.board, LastAction)} :
            /\ mid.board = Put(prev.board, 8 - k, LastAction, prev.color)
            /\ Settled(prev.board, LastAction) =>
                /\ prev.board[(8 - k) * N + LastAction] = Empty
                /\ \A r \in (9 - k) .. 8 : prev.board[r * N + LastAction] # Empty

\* C7 witness: a piece dropped on a settled column that holds pieces of
\* player 0
C7_Witness ==
    /\ Stepped
    /\ Count(prev.board, LastAction) \in 1 .. 8
    /\ Settled(prev.board, LastAction)
    /\ prev.board[8 * N + LastAction] = 0

\* C8 as stated: for every state and every legal action the count of
\* non-empty cells of the acted-upon column after step is one more than
\* before.
C8_ColumnCountPlusOneAfterStep ==
    (Stepped /\ Count(prev.board, LastAction) < 9) =>
        Count(state.board, LastAction) = Count(prev.board, LastAction) + 1

\* C8 amended: for a legal action on a settled column, the count of the
\* column is one more after the move application; it is one more after step
\* when step does not rotate; and in every case the board holds one more
\* non-empty cell after step.
C8_ColumnCountPlusOneBeforeRotation ==
    (/\ Stepped
     /\ Count(prev.board, LastAction) < 9
     /\ Settled(prev.board, LastAction)) =>
        /\ Count(mid.board, LastAction) = Count(prev.board, LastAction) + 1
        /\ ~rotated =>
             Count(state.board, LastAction) = Count(prev.board, LastAction) + 1
        /\ Total(state.board) = Total(prev.board) + 1

\* C8 witness: a legal move on a settled column followed by a rotation that
\* changes the count of that column
C8_Witness ==
    /\ Stepped
    /\ Count(prev.board, LastAction) < 9
    /\ Settled(prev.board, LastAction)
    /\ rotated
    /\ Count(state.board, LastAction) # Count(prev.board, LastAction) + 1

\* C9: observe called without a viewing color marks in plane 0 the cells
\* equal to state.color and in plane 1 the cells equal to 1 - state.color.
C9_DefaultObserveIsMoverPerspective ==
    (obs.called /\ obs.color = None) =>
        \A r \in Rows, c \in Cols :
            /\ obs.planes[r][c][0] = (state.board[r * N + c] = state.color)
            /\ obs.planes[r][c][1] = (state.board[r * N + c] = 1 - state.color)

\* C10 as stated: a step on a full column overwrites row 0 of that column
\* with the mover's color and leaves every other cell as it was.
C10_FullColumnOverwritesRowZero ==
    (Stepped /\ Count(prev.board, LastAction) = 9) =>
        mid.board = Put(prev.board, 0, LastAction, prev.color)

\* C10 amended: a step on a full column overwrites the bottom cell of that
\* column (row 8) with the mover's color and leaves every other cell as it
\* was before any rotation.
C10_FullColumnOverwritesRowEight ==
    (Stepped /\ Count(prev.board, LastAction) = 9) =>
        mid.board = Put(prev.board, 8, LastAction, prev.color)

\* C10 witness: a step on a full column owned by the other player
C10_Witness ==
    /\ Stepped
    /\ Count(prev.board, LastAction) = 9
    /\ prev.board[8 * N + LastAction] = 1 - prev.color
    /\ mid.board[8 * N + LastAction] = prev.color

\* C11: is_terminal is true iff winner is 0, 1 or 2 or every one of the 9
\* columns holds 9 occupied cells; a fully occupied board with winner = -1
\* is terminal, a state with winner = -1 and an empty cell is not.
C11_TerminalIffWinnerOrBoardFull ==
    res.op = "is_terminal" =>
        /\ res.value = (state.winner \in {0, 1, 2}
                        \/ \A c \in Cols : Count(state.board, c) = 9)
        /\ (state.winner = -1 /\ Total(state.board) = 81) => res.value
        /\ (state.winner = -1 /\ Total(state.board) < 81) => ~res.value

\* C11 witness: is_terminal called on a fully occupied board with winner = -1
C11_Witness ==
    /\ res.op = "is_terminal"
    /\ state.winner = -1
    /\ Total(state.board) = 81
    /\ res.value

\* C12: rewards is [1, -1] exactly when winner = 0, [-1, 1] exactly when
\* winner = 1 and [0, 0] for winner = -1 and winner = 2; its entries sum to 0.
C12_RewardsByWinner ==
    res.op = "rewards" =>
        /\ (res.value = <<1, -1>>) = (state.winner = 0)
        /\ (res.value = <<-1, 1>>) = (state.winner = 1)
        /\ (res.value = <<0, 0>>) = (state.winner \in {-1, 2})
        /\ res.value[1] + res.value[2] = 0

\* C12 witness: rewards called on a state with a simultaneous win
C12_Witness ==
    res.op = "rewards" /\ state.winner = 2 /\ res.value = <<0, 0>>

\* C13: legal_action_mask has entry c true iff fewer than 9 cells of column c
\* are occupied, whatever color, winner and round are; columns stay legal in
\* a state whose winner is not -1.
C13_MaskIffColumnNotFull ==
    res.op = "legal_action_mask" =>
        /\ DOMAIN res.value = Cols
        /\ \A c \in Cols : res.value[c] = (Count(state.board, c) < 9)

\* C13 witness: the mask of a decided state reports a legal and a full column
C13_Witness ==
    /\ res.op = "legal_action_mask"
    /\ state.winner # -1
    /\ \E c \in Cols : res.value[c]
    /\ \E c \in Cols : ~res.value[c]

\* C15: observe called with a viewing color v in {0, 1} marks in plane 0
\* exactly the cells equal to v and in plane 1 exactly the cells equal to
\* 1 - v; the planes are disjoint, their union is the set of occupied cells
\* and an empty cell is marked in neither.
C15_ObservePlanesByViewingColor ==
    (obs.called /\ obs.color \in {0, 1}) =>
        \A r \in Rows, c \in Cols :
            \A cell \in {state.board[r * N + c]} :
                /\ obs.planes[r][c][0] = (cell = obs.color)
                /\ obs.planes[r][c][1] = (cell = 1 - obs.color)
                /\ ~(obs.planes[r][c][0] /\ obs.planes[r][c][1])
                /\ (obs.planes[r][c][0] \/ obs.planes[r][c][1]) = (cell # Empty)

\* C15 witness: observe called with viewing color 1 by the state of mover 0
\* on a board that holds pieces of both players and empty cells
C15_Witness ==
    /\ obs.called
    /\ obs.color = 1
    /\ state.color = 0
    /\ \E i, j, k \in Cells :
        /\ state.board[i] = 0 /\ obs.planes[i \div N][i % N][1]
        /\ state.board[j] = 1 /\ obs.planes[j \div N][j % N][0]
        /\ state.board[k] = Empty

\* C14 as stated: the win-line table that the win check of step reads holds
\* exactly 76 index quintuples.
C14_TableHasSeventySixLines == Stepped => Len(IDX) = 76

\* C14 amended: the win-line table that the win check of step reads holds
\* exactly 108 index quintuples, no two of them equal: 36 vertical, 36
\* horizontal, 16 diagonal and 20 anti-diagonal ones.
C14_TableHasHundredEightLines ==
    Stepped =>
        /\ Len(IDX) = 108
        /\ Cardinality({IDX[k] : k \in DOMAIN IDX}) = 108
        /\ Len(Vertical) = 36
        /\ Len(Horizontal) = 36
        /\ Len(Diagonal) = 16
        /\ Len(AntiDiagonal) = 20

\* C14 witness: a step whose win is found on a line past the 76th of the table
\* and on no earlier line
C14_Witness ==
    /\ Stepped
    /\ state.winner = prev.color
    /\ \E k \in 77 .. Len(IDX) :
        \A m \in 1 .. 5 : mid.board[IDX[k][m]] = prev.color
    /\ ~\E k \in 1 .. 76 :
        \A m \in 1 .. 5 : mid.board[IDX[k][m]] = prev.color

\* C16: the rotation-gravity mechanic turns the board clockwise and settles
\* it stably: column j of the result, read top to bottom, is empty cells
\* followed by the occupied cells of row 8 - j of the input in left-to-right
\* order; the numbers of cells of player 0, of player 1 and of empty cells
\* are unchanged.
C16_RotationIsClockwiseTurnAndStableSettling ==
    (Stepped /\ rotated) =>
        /\ \A j \in Cols :
            \A p \in {RowPieces(mid.board, 8 - j)} :
                \A i \in Rows :
                    state.board[i * N + j] =
                        IF i < 9 - Len(p) THEN Empty ELSE p[i - (9 - Len(p)) + 1]
        /\ \A v \in {Empty, 0, 1} :
            Cardinality(CellsOf(state.board, v)) =
                Cardinality(CellsOf(mid.board, v))

\* C16 witness: a rotation of a board with a row that holds pieces of both
\* players, not all of them adjacent
C16_Witness ==
    /\ Stepped
    /\ rotated
    /\ \E r \in Rows :
        /\ \E c \in 1 .. 7 :
            /\ mid.board[r * N + c] = Empty
            /\ mid.board[r * N + c - 1] # Empty
            /\ \E c2 \in (c + 1) .. 8 : mid.board[r * N + c2] # Empty
        /\ \E c \in Cols : mid.board[r * N + c] = 0
        /\ \E c \in Cols : mid.board[r * N + c] = 1

\* C17: in every state reached from init() by step calls with legal actions
\* every column is settled: no column has an empty cell below an occupied
\* cell, and the dropped piece lands on top of the stack of its column, on a
\* cell that was empty.
C17_ReachableColumnsSettled ==
    /\ \A c \in Cols : Settled(state.board, c)
    /\ Stepped =>
        \A k \in {Count(prev.board, LastAction)} :
            /\ k < 9
            /\ prev.board[(8 - k) * N + LastAction] = Empty
            /\ \A r \in (9 - k) .. 8 : prev.board[r * N + LastAction] # Empty
            /\ mid.board = Put(prev.board, 8 - k, LastAction, prev.color)
            /\ Total(mid.board) = Total(prev.board) + 1

\* C17 witness: after two rotations a piece is dropped on a stack of at least
\* three pieces
C17_Witness ==
    /\ Stepped
    /\ state.round > 6
    /\ Count(prev.board, LastAction) >= 3
    /\ ~rotated

\* C18: in every state reached from init() by step calls with legal actions
\* every cell is -1, 0 or 1, color is round mod 2, the board holds round
\* pieces, ceil(round / 2) of player 0 and floor(round / 2) of player 1.
C18_ReachableCountsFollowRound ==
    /\ \A i \in Cells : state.board[i] \in {-1, 0, 1}
    /\ state.color = state.round % 2
    /\ Total(state.board) = state.round
    /\ Cardinality(CellsOf(state.board, 0)) = (state.round + 1) \div 2
    /\ Cardinality(CellsOf(state.board, 1)) = state.round \div 2

\* C18 witness: a state of odd round reached through a rotation and played
\* on after a win
C18_Witness ==
    /\ Stepped
    /\ prev.winner # -1
    /\ state.round % 2 = 1
    /\ state.round > 3

\* C19: in every state reached from init() by step calls with legal actions
\* on states that are not terminal, winner agrees with the board under the
\* win-line table: -1 iff no player owns a line of the table, 0 iff only
\* player 0 does, 1 iff only player 1 does, 2 iff both do; and winner = 2
\* only in a state whose round is a multiple of 3.
C19_ReachableWinnerAgreesWithBoard ==
    \A w0 \in {check_winner(state.board, 0)} :
    \A w1 \in {check_winner(state.board, 1)} :
        /\ (state.winner = -1) = (~w0 /\ ~w1)
        /\ (state.winner = 0) = (w0 /\ ~w1)
        /\ (state.winner = 1) = (~w0 /\ w1)
        /\ (state.winner = 2) = (w0 /\ w1)
        /\ state.winner = 2 => state.round % 3 = 0

\* C19 witness: a step without rotation sets winner to the mover, who owns a
\* line of the table
C19_Witness ==
    /\ Stepped
    /\ ~rotated
    /\ state.winner = prev.color
    /\ check_winner(state.board, prev.color)

\* C20: step does not carry the previous winner forward: for every state and
\* legal action, a step that does not rotate yields winner = the mover's
\* color if the mover owns a line of the table on the updated board and -1
\* otherwise, also when the winner of the state was not -1.
C20_WinnerRecomputedFromBoard ==
    (Stepped /\ ~rotated) =>
        state.winner =
            IF check_winner(state.board, prev.color) THEN prev.color ELSE -1

\* C20 witness: a state with winner in {0, 1, 2} is followed by a state with
\* winner = -1 that is_terminal reports as not terminal
C20_Witness ==
    /\ Stepped
    /\ prev.winner \in {0, 1, 2}
    /\ is_terminal(prev)
    /\ state.winner = -1
    /\ ~is_terminal(state)

====
